---- MODULE Spec2Model ----
(***************************************************************************)
(* Model of the category-taxonomy editor of PayFlow:                       *)
(*   frontend/src/components/ManageCategoriesDialog.js  (the edit session) *)
(*   frontend/src/hooks/useCategories.js                (fetch and save)   *)
(*                                                                         *)
(* A category tree is a JSON object.  A JavaScript value that can sit in   *)
(* the tree is modelled by a record [t, kids]:                             *)
(*   t = "null"   the value null (a Leaf)                                  *)
(*   t = "obj"    an object; kids is the ORDERED list of its own           *)
(*                properties, in insertion order (Object.entries order)    *)
(*   t = "undef"  the value undefined (a property read that misses)        *)
(* A text-field value is a sequence of tokens, each a blank " " or a name, *)
(* so that String.prototype.trim has something to strip.                   *)
(***************************************************************************)
EXTENDS Naturals, Integers, Sequences, FiniteSets, TLC

\* ------------------------------------------------------------------ bounds
\* Most entries (nodes below the root) an add may leave in a working tree of
\* a behaviour that edits and never saves.
MaxNodes == 3
\* Deepest path an add may create.
MaxDepth == 3
\* Most entries an add may leave in a working tree of a behaviour that saves.
MaxNodesSaving == 0
\* Most updateCategoryTree requests issued in one behaviour that saves.
MaxSaves == 1
\* Longest path handed to an operation in the operation-level specification.
MaxPathLen == 2

\* most links of a drawn aggregation document
MaxLinks == 3
\* most top-level categories of a wide aggregation document
MaxFan == 12

Names == {"a", "b"}
Blank == " "

\* ------------------------------------------------------- JavaScript values
Null == [t |-> "null", kids |-> <<>>]
Undef == [t |-> "undef", kids |-> <<>>]
Obj(kids) == [t |-> "obj", kids |-> kids]
EmptyObj == Obj(<<>>)
Entry(k, v) == [k |-> k, v |-> v]

IsObj(v) == v.t = "obj"
\* `!parent || typeof parent !== "object"`: null and undefined are not objects
\* one can write a property to.
IsNullish(v) == v.t # "obj"

\* Object.keys(o)
ObjKeys(o) == [i \in 1..Len(o.kids) |-> o.kids[i].k]
HasKey(o, k) == \E i \in 1..Len(o.kids) : o.kids[i].k = k
IndexOf(o, k) == CHOOSE i \in 1..Len(o.kids) : o.kids[i].k = k
\* o[k]: undefined when o has no own property k
GetProp(o, k) == IF HasKey(o, k) THEN o.kids[IndexOf(o, k)].v ELSE Undef
\* o[k] = v: an existing property keeps its place, a new one is appended
SetProp(o, k, v) ==
    IF HasKey(o, k)
    THEN Obj([i \in 1..Len(o.kids) |->
                 IF o.kids[i].k = k THEN Entry(k, v) ELSE o.kids[i]])
    ELSE Obj(Append(o.kids, Entry(k, v)))
\* delete o[k]
DeleteProp(o, k) == Obj(SelectSeq(o.kids, LAMBDA e : e.k # k))

\* ------------------------------------------------------------- text fields
RECURSIVE TrimStart(_)
TrimStart(s) ==
    IF s # <<>> /\ Head(s) = Blank THEN TrimStart(Tail(s)) ELSE s
RECURSIVE TrimEnd(_)
TrimEnd(s) ==
    IF s # <<>> /\ s[Len(s)] = Blank
    THEN TrimEnd(SubSeq(s, 1, Len(s) - 1)) ELSE s
\* value.trim(), as a property name: "" when nothing is left.  The text values
\* of the model hold at most one name token, so what is left is that name.
Trim(s) == LET r == TrimEnd(TrimStart(s)) IN IF r = <<>> THEN "" ELSE r[1]
\* the text a field shows for a name (setEditValue(contextName))
TextOf(name) == IF name = "" THEN <<>> ELSE <<name>>
TextValues ==
    {<<>>, <<Blank>>, <<Blank, "a", Blank>>} \cup {<<n>> : n \in Names}

\* ------------------------------------------------------------ tree helpers
\* A clone of the top level only: every property is kept, with the value null.
deepCloneFlat(v) ==
    IF IsObj(v) THEN Obj([i \in 1..Len(v.kids) |-> Entry(v.kids[i].k, Null)])
    ELSE v

\* JSON.parse(JSON.stringify(obj)): a copy in the same property order, from
\* which every property whose value is undefined is dropped.
RECURSIVE deepClone(_), CloneKids(_)
deepClone(v) == IF IsObj(v) THEN Obj(CloneKids(v.kids)) ELSE v
CloneKids(s) ==
    IF s = <<>> THEN <<>>
    ELSE (IF Head(s).v.t = "undef" THEN <<>>
          ELSE <<Entry(Head(s).k, deepClone(Head(s).v))>>) \o CloneKids(Tail(s))

\* getAllChildCategories that does not descend: the null-valued keys of the
\* top level only.
getAllChildCategoriesShallow(node) ==
    IF IsNullish(node) THEN <<>>
    ELSE LET nulls == SelectSeq(node.kids, LAMBDA e : e.v.t = "null")
         IN  [i \in 1..Len(nulls) |-> nulls[i].k]

\* getAllChildCategories: the keys whose value is null, in traversal order,
\* one entry per occurrence.
RECURSIVE getAllChildCategories(_), TraverseKids(_)
getAllChildCategories(node) ==
    IF IsNullish(node) THEN <<>> ELSE TraverseKids(node.kids)
TraverseKids(s) ==
    IF s = <<>> THEN <<>>
    ELSE (IF Head(s).v.t = "null" THEN <<Head(s).k>>
          ELSE IF IsObj(Head(s).v) THEN getAllChildCategories(Head(s).v)
          ELSE <<>>) \o TraverseKids(Tail(s))

\* array.includes(x)
Includes(seq, x) == \E i \in 1..Len(seq) : seq[i] = x

\* The outcome of a helper that mutates the clone it is given: the mutated
\* tree, or a TypeError thrown on reading or writing a property of null or
\* undefined.
Done(tree) == [ok |-> TRUE, tree |-> tree]
TypeError == [ok |-> FALSE, tree |-> Null]

\* deleteTreeKey with the emptiness check left out: a container that lost its
\* last key stays {}.
RECURSIVE deleteTreeKeyKeepsEmpty(_, _)
deleteTreeKeyKeepsEmpty(tree, path) ==
    IF IsNullish(tree) \/ path = <<>> THEN TypeError
    ELSE IF Len(path) = 1 THEN Done(DeleteProp(tree, path[1]))
    ELSE LET r == deleteTreeKeyKeepsEmpty(GetProp(tree, path[1]), Tail(path))
         IN  IF ~r.ok THEN TypeError
             ELSE Done(SetProp(tree, path[1], r.tree))

\* deleteTreeKey that removes a container left without keys instead of
\* setting it to null.
RECURSIVE deleteTreeKeyRemovesEmpty(_, _)
deleteTreeKeyRemovesEmpty(tree, path) ==
    IF IsNullish(tree) \/ path = <<>> THEN TypeError
    ELSE IF Len(path) = 1 THEN Done(DeleteProp(tree, path[1]))
    ELSE LET r == deleteTreeKeyRemovesEmpty(GetProp(tree, path[1]), Tail(path))
         IN  IF ~r.ok THEN TypeError
             ELSE IF Len(ObjKeys(r.tree)) = 0
                  THEN Done(DeleteProp(tree, path[1]))
                  ELSE Done(SetProp(tree, path[1], r.tree))

\* deleteTreeKey(tree, path): removes the last key of the path; on the way
\* back, a container left without keys is set to null.
RECURSIVE deleteTreeKey(_, _)
deleteTreeKey(tree, path) ==
    IF IsNullish(tree) \/ path = <<>> THEN TypeError
    ELSE IF Len(path) = 1 THEN Done(DeleteProp(tree, path[1]))
    ELSE LET r == deleteTreeKey(GetProp(tree, path[1]), Tail(path))
         IN  IF ~r.ok THEN TypeError
             ELSE IF Len(ObjKeys(r.tree)) = 0
                  THEN Done(SetProp(tree, path[1], Null))
                  ELSE Done(SetProp(tree, path[1], r.tree))

\* renameTreeKey that gives the new key no value: tree[newName] = null
RECURSIVE renameTreeKeyDropsSubtree(_, _, _)
renameTreeKeyDropsSubtree(tree, path, newName) ==
    IF IsNullish(tree) \/ path = <<>> THEN TypeError
    ELSE IF Len(path) = 1
         THEN Done(DeleteProp(SetProp(tree, newName, Null), path[1]))
    ELSE LET r == renameTreeKeyDropsSubtree(GetProp(tree, path[1]), Tail(path),
                                            newName)
         IN  IF ~r.ok THEN TypeError
             ELSE Done(SetProp(tree, path[1], r.tree))

\* renameTreeKey(tree, path, newName): tree[newName] = tree[old]; delete tree[old]
RECURSIVE renameTreeKey(_, _, _)
renameTreeKey(tree, path, newName) ==
    IF IsNullish(tree) \/ path = <<>> THEN TypeError
    ELSE IF Len(path) = 1
         THEN Done(DeleteProp(SetProp(tree, newName, GetProp(tree, path[1])),
                              path[1]))
    ELSE LET r == renameTreeKey(GetProp(tree, path[1]), Tail(path), newName)
         IN  IF ~r.ok THEN TypeError
             ELSE Done(SetProp(tree, path[1], r.tree))

\* The loop `for (const key of addPath) parent = parent[key]` of handleAddSave:
\* the value the path leads to, or a TypeError when a step reads a property of
\* null or undefined.
RECURSIVE WalkTo(_, _)
WalkTo(node, path) ==
    IF path = <<>> THEN Done(node)
    ELSE IF IsNullish(node) THEN TypeError
    ELSE WalkTo(GetProp(node, Head(path)), Tail(path))

\* The tree with the value at `path` assigned (every container on the way is
\* an object: the walk above succeeded).
RECURSIVE AssignAt(_, _, _)
AssignAt(node, path, v) ==
    IF path = <<>> THEN v
    ELSE SetProp(node, Head(path),
                 AssignAt(GetProp(node, Head(path)), Tail(path), v))

\* AddChildTo that leaves a null parent a Leaf and sets the child beside it.
AddChildToAsSibling(newTree, addPath, name) ==
    LET w == WalkTo(newTree, addPath)
    IN  IF ~w.ok THEN TypeError
        ELSE IF IsNullish(w.tree) /\ addPath # <<>>
             THEN LET up == SubSeq(addPath, 1, Len(addPath) - 1)
                  IN  Done(AssignAt(newTree, up,
                                    SetProp(WalkTo(newTree, up).tree, name, Null)))
             ELSE Done(AssignAt(newTree, addPath, SetProp(w.tree, name, Null)))

\* The body of handleAddSave after the blank check, on the clone: a parent
\* that is null (or missing) is first replaced by {}, then the child is set.
AddChildTo(newTree, addPath, name) ==
    LET w == WalkTo(newTree, addPath)
    IN  IF ~w.ok THEN TypeError
        ELSE LET parent == IF IsNullish(w.tree) THEN EmptyObj ELSE w.tree
             IN  Done(AssignAt(newTree, addPath, SetProp(parent, name, Null)))

\* ------------------------------------------------------- shapes of a tree
RECURSIVE NodeCount(_)
NodeCount(v) ==
    IF ~IsObj(v) \/ v.kids = <<>> THEN 0
    ELSE 1 + NodeCount(Head(v.kids).v) + NodeCount(Obj(Tail(v.kids)))

\* The paths renderTree gives a list item to: every property of the tree,
\* at every depth.
RECURSIVE RenderedPaths(_)
RenderedPaths(v) ==
    IF ~IsObj(v) THEN {}
    ELSE UNION { {<<v.kids[i].k>>} \cup
                 { <<v.kids[i].k>> \o p : p \in RenderedPaths(v.kids[i].v) }
                 : i \in 1..Len(v.kids) }

\* The value a path leads to; undefined when it leads nowhere.
RECURSIVE NodeAt(_, _)
NodeAt(v, path) ==
    IF path = <<>> THEN v
    ELSE IF ~IsObj(v) THEN Undef
    ELSE NodeAt(GetProp(v, Head(path)), Tail(path))

\* A Branch below the root that has no child: the value {}.
RECURSIVE HasEmptyBranch(_)
HasEmptyBranch(v) ==
    /\ IsObj(v)
    /\ \E i \in 1..Len(v.kids) :
          \/ v.kids[i].v = EmptyObj
          \/ HasEmptyBranch(v.kids[i].v)

RECURSIVE HasEmptyName(_)
HasEmptyName(v) ==
    /\ IsObj(v)
    /\ \E i \in 1..Len(v.kids) : v.kids[i].k = "" \/ HasEmptyName(v.kids[i].v)

\* Leaf names of a tree, as a set.
LeafNames(v) ==
    LET s == getAllChildCategories(v) IN {s[i] : i \in 1..Len(s)}

\* ------------------------------------------- AggregationDialog: echartsData
\* The sunburst data AggregationDialog computes from its `data` prop, a
\* document {nodes: [{name, value}], links: [{source, target, value}]} whose
\* links name nodes by their 0-based position.  The value of a link is not
\* read by echartsData and is left out.
CATEGORY_COLORS ==
    << "rgba(255, 209, 102, 0.55)", "rgba(6, 214, 160, 0.55)",
       "rgba(239, 71, 111, 0.55)", "rgba(17, 138, 178, 0.55)",
       "rgba(255, 181, 167, 0.55)", "rgba(181, 234, 215, 0.55)",
       "rgba(199, 206, 234, 0.55)", "rgba(255, 214, 165, 0.55)",
       "rgba(226, 240, 203, 0.55)", "rgba(255, 218, 193, 0.55)",
       "rgba(181, 208, 230, 0.55)" >>
ROOT_COLOR == "rgba(74, 144, 226, 0.55)"
RootName == "Total Expenses"

ChartNode(name, value) == [name |-> name, value |-> value]
Link(source, target) == [source |-> source, target |-> target]
\* data: null, or a document
NoData == [isNull |-> TRUE, nodes |-> <<>>, links |-> <<>>]
FlowGraph(nodes, links) == [isNull |-> FALSE, nodes |-> nodes, links |-> links]
\* data.nodes[i]
NodeOf(data, i) == data.nodes[i + 1]

\* data.nodes.findIndex(n => n.name === "Total Expenses")
findRootIdx(data) ==
    LET hits == {i \in 1..Len(data.nodes) : data.nodes[i].name = RootName}
    IN  IF hits = {} THEN -1
        ELSE (CHOOSE i \in hits : \A j \in hits : i <= j) - 1

\* nodeMap[i] is set: node i passed the filter `i === rootIdx || n.value >= 0`
InNodeMap(data, rootIdx, i) ==
    /\ i \in 0..(Len(data.nodes) - 1)
    /\ (i = rootIdx \/ NodeOf(data, i).value >= 0)

\* nodeChildren without the look at the target: every link of a mapped
\* source gives a child.
nodeChildrenAnyTarget(data, rootIdx, i) ==
    LET ls == SelectSeq(data.links,
                        LAMBDA l : /\ l.source = i
                                   /\ InNodeMap(data, rootIdx, l.source))
    IN  [k \in 1..Len(ls) |-> ls[k].target]

\* nodeMap[i].children after the loop over data.links, as node positions
nodeChildren(data, rootIdx, i) ==
    LET ls == SelectSeq(data.links,
                        LAMBDA l : /\ l.source = i
                                   /\ InNodeMap(data, rootIdx, l.source)
                                   /\ InNodeMap(data, rootIdx, l.target))
    IN  [k \in 1..Len(ls) |-> ls[k].target]

\* The map and reduce that give negativeSum, over the nodes from position i
RECURSIVE negativeSumFrom(_, _, _)
negativeSumFrom(data, rootIdx, i) ==
    IF i >= Len(data.nodes) THEN 0
    ELSE LET isChild == \E k \in 1..Len(data.links) : data.links[k].target = i
             v == IF i # rootIdx /\ NodeOf(data, i).value < 0 /\ isChild
                  THEN NodeOf(data, i).value ELSE 0
         IN  v + negativeSumFrom(data, rootIdx, i + 1)

\* negativeSum that counts every negative node but the root, linked or not.
negativeSumAllExcluded(data, rootIdx) ==
    LET RECURSIVE From(_)
        From(i) ==
            IF i >= Len(data.nodes) THEN 0
            ELSE (IF i # rootIdx /\ NodeOf(data, i).value < 0
                  THEN NodeOf(data, i).value ELSE 0) + From(i + 1)
    IN  From(0)

negativeSum(data, rootIdx) == negativeSumFrom(data, rootIdx, 0)

\* nodeMap[i].value when assignColors reads it: the root's was overwritten
nodeMapValue(data, rootIdx, i) ==
    IF i = rootIdx
    THEN (-NodeOf(data, i).value) + (-negativeSum(data, rootIdx))
    ELSE NodeOf(data, i).value

\* A node of the result that has a `children` property whatever its children.
TreeNodeWithChildren(name, value, color, children) ==
    [name |-> name, value |-> value, itemStyle |-> color,
     hasChildren |-> TRUE, children |-> children]

\* A node of the result; `children` is an own property only if hasChildren.
TreeNode(name, value, color, children) ==
    [name |-> name, value |-> value, itemStyle |-> color,
     hasChildren |-> Len(children) > 0, children |-> children]

\* assignColors that gives every node below the root the palette color of
\* its own position among its siblings.
RECURSIVE assignColorsBySibling(_, _, _, _, _, _)
assignColorsBySibling(data, rootIdx, i, color, depth, topLevelIdx) ==
    LET nodeColor == IF depth = 0 THEN ROOT_COLOR ELSE color
        kids == nodeChildren(data, rootIdx, i)
    IN  TreeNode(NodeOf(data, i).name, nodeMapValue(data, rootIdx, i), nodeColor,
                 [k \in 1..Len(kids) |->
                    assignColorsBySibling(
                        data, rootIdx, kids[k],
                        CATEGORY_COLORS[((k - 1) % Len(CATEGORY_COLORS)) + 1],
                        depth + 1, k - 1)])

\* assignColors(node, color, depth, topLevelIdx), for node = nodeMap[i]
RECURSIVE assignColors(_, _, _, _, _, _)
assignColors(data, rootIdx, i, color, depth, topLevelIdx) ==
    LET nodeColor ==
            IF depth = 0 THEN ROOT_COLOR
            ELSE IF depth = 1
                 THEN CATEGORY_COLORS[(topLevelIdx % Len(CATEGORY_COLORS)) + 1]
                 ELSE color
        kids == nodeChildren(data, rootIdx, i)
    IN  TreeNode(NodeOf(data, i).name, nodeMapValue(data, rootIdx, i), nodeColor,
                 [k \in 1..Len(kids) |->
                    assignColors(
                        data, rootIdx, kids[k],
                        IF depth = 0
                        THEN CATEGORY_COLORS[((k - 1) % Len(CATEGORY_COLORS)) + 1]
                        ELSE nodeColor,
                        depth + 1,
                        IF depth = 0 THEN k - 1 ELSE topLevelIdx)])

\* The children arrays hold the nodeMap objects themselves: when the links
\* lead from the root back to a node already on the way, assignColors never
\* returns and the engine throws a RangeError.  A walk of n links from node i:
RECURSIVE WalkOfLength(_, _, _, _)
WalkOfLength(data, rootIdx, i, n) ==
    \/ n = 0
    \/ LET kids == nodeChildren(data, rootIdx, i)
       IN  \E k \in 1..Len(kids) : WalkOfLength(data, rootIdx, kids[k], n - 1)

\* The value of the memo: null, the one-element list [root], or no value
\* because the computation threw.
NoTreeNode == TreeNode("", 0, "", <<>>)
NullChart == [status |-> "null", length |-> 0, root |-> NoTreeNode]
ThrownChart == [status |-> "RangeError", length |-> 0, root |-> NoTreeNode]
ChartOf(root) == [status |-> "list", length |-> 1, root |-> root]

echartsDataOf(data) ==
    IF data.isNull THEN NullChart
    ELSE IF Len(data.nodes) = 0 \/ Len(data.links) = 0 THEN NullChart
    ELSE LET rootIdx == findRootIdx(data)
         IN  IF rootIdx = -1 THEN NullChart
             ELSE IF WalkOfLength(data, rootIdx, rootIdx, Len(data.nodes))
                  THEN ThrownChart
                  ELSE ChartOf(assignColors(data, rootIdx, rootIdx, ROOT_COLOR,
                                            0, 0))

\* The document after a call in which nodeMap holds the nodes of the document
\* themselves: the root's value is overwritten in the document.
dataAfterShared(data) ==
    IF data.isNull \/ Len(data.nodes) = 0 \/ Len(data.links) = 0
       \/ findRootIdx(data) = -1
    THEN data
    ELSE LET rootIdx == findRootIdx(data)
         IN  [data EXCEPT !.nodes[rootIdx + 1].value
                              = nodeMapValue(data, rootIdx, rootIdx)]

\* The document after a call of echartsData: the call reads the nodes and the
\* links; filteredNodes and nodeMap hold new objects made from the nodes'
\* names and values, and the write to the root's value goes to nodeMap's.
dataAfter(data) ==
    IF data.isNull THEN data
    ELSE [data EXCEPT
            !.nodes = [i \in 1..Len(data.nodes) |->
                          ChartNode(data.nodes[i].name, data.nodes[i].value)]]

\* ------------------------------------------------------------------ state
\* A path state that may be null (editPath, addPath, contextPath).
NullPath == [isNull |-> TRUE, p |-> <<>>]
PathOf(p) == [isNull |-> FALSE, p |-> p]
\* confirmOpen: false, or {path, newTree}
ConfirmClosed == [open |-> FALSE, path |-> <<>>, newTree |-> Null]
ConfirmOf(path, newTree) == [open |-> TRUE, path |-> path, newTree |-> newTree]

VARIABLES
    serverTree,         \* the tree the backend holds (GET/PUT categories/tree)
    treeFetch,          \* the fetchCategoryTree request of the mount effect
    updateReqs,         \* updateCategoryTree requests not yet answered
    saves,              \* number of updateCategoryTree requests issued
    categoryTree,       \* useCategories: the last fetched / saved tree
    managerOpen,        \* useCategories: the dialog's `open` prop
    payments,           \* usePayments: cust_category of payment 1, 2, ...
    tree,               \* ManageCategoriesDialog: the working copy
    editPath, editValue,
    addPath, addValue,
    confirmOpen, deletedCategories, affectedPayments,
    contextMenu, contextPath, contextName,
    last,               \* history: the handler that ran last, the tree before it
    budget,             \* the bounds in force: [nodes, saves]
    aggregationData,    \* PaymentsTable: the `data` prop of AggregationDialog
    echartsData,        \* AggregationDialog: the memo computed from `data`
    projected,          \* history: the memo's runs on the document, the
                        \* document and the result of the first run
    categories,         \* useCategories: the flat list of category names
    catFetches          \* fetchCategories requests not yet answered

vars == <<serverTree, treeFetch, updateReqs, saves, categoryTree, managerOpen,
          payments, tree, editPath, editValue, addPath, addValue, confirmOpen,
          deletedCategories, affectedPayments, contextMenu, contextPath,
          contextName, last, budget, aggregationData, echartsData, projected,
          categories, catFetches>>

catVars == <<categories, catFetches>>
chartVars == <<aggregationData, echartsData, projected>>
NotProjected == [runs |-> 0, data |-> NoData, chart |-> NullChart]
hookVars == <<serverTree, treeFetch, updateReqs, saves, categoryTree,
              managerOpen, payments, budget, chartVars, catVars>>
confirmVars == <<confirmOpen, deletedCategories, affectedPayments>>
contextVars == <<contextMenu, contextPath, contextName>>
editVars == <<editPath, editValue>>
addVars == <<addPath, addValue>>
\* Everything but the category list and the chart.
dialogVars == <<serverTree, treeFetch, updateReqs, saves, categoryTree,
                managerOpen, payments, budget, tree, editVars, addVars,
                confirmVars, contextVars, last>>

\* The history variable: the handler that ran, the working tree it found, the
\* path and the field text it was given, and (for an answered request) the
\* tree that request carried.
History(op, path, text, sent) ==
    [op |-> op, pre |-> tree, path |-> path, text |-> text, sent |-> sent,
     reqs |-> updateReqs]
Ran(op) == last' = History(op, <<>>, <<>>, Null)
RanOn(op, path, text) == last' = History(op, path, text, Null)

\* A fetchCategories request on its way: who issued it (the mount effect or
\* handleUpdateCategoryTree, then with the tree of that save), and the list
\* the backend has answered with, once it has.
CatRequest(by, sentTree) ==
    [by |-> by, tree |-> sentTree, state |-> "sent", list |-> <<>>]
\* GET /categories: the names a payment can be given, the Leaves of the tree
\* the backend holds.
CategoriesOf(t) == getAllChildCategories(t)

\* Trees the backend may hold when the page is mounted.
LoadedTree == Obj(<<Entry("a", Obj(<<Entry("b", Null)>>))>>)
\* cust_category of the loaded payments ("" is uncategorized): payment 1 is
\* in category b and payment 2 in none while sessions are only edited, and
\* there is no payment while they are saved.
LoadedPayments == <<"b", "">>

\* The behaviours explored: long edit sessions that are never saved, and
\* short ones that are.
Budgets ==
    { [nodes |-> MaxNodes, saves |-> 0],
      [nodes |-> MaxNodesSaving, saves |-> MaxSaves] }

Init ==
    /\ budget \in Budgets
    /\ serverTree = LoadedTree
    /\ treeFetch = "pending"
    /\ updateReqs = <<>>
    /\ saves = 0
    /\ categoryTree = EmptyObj
    /\ managerOpen = FALSE
    /\ payments = (IF budget.saves = 0 THEN LoadedPayments ELSE <<>>)
    /\ tree = deepClone(EmptyObj)
    /\ editPath = NullPath /\ editValue = <<>>
    /\ addPath = NullPath /\ addValue = <<>>
    /\ confirmOpen = ConfirmClosed
    /\ deletedCategories = <<>> /\ affectedPayments = <<>>
    /\ contextMenu = FALSE /\ contextPath = NullPath /\ contextName = ""
    /\ last = [op |-> "init", pre |-> EmptyObj, path |-> <<>>, text |-> <<>>,
               sent |-> Null, reqs |-> <<>>]
    /\ aggregationData = NoData
    /\ echartsData = echartsDataOf(NoData)
    /\ projected = NotProjected
    /\ categories = <<>>
    /\ catFetches = <<CatRequest("mount", Null)>>

\* The effect on [categoryTree, open]: the working copy is replaced by a clone
\* of the categoryTree prop and the inline editors are closed.
ResetEffect(newCategoryTree) ==
    /\ tree' = deepClone(newCategoryTree)
    /\ editPath' = NullPath /\ addPath' = NullPath
    /\ editValue' = <<>> /\ addValue' = <<>>

\* ------------------------------------------------------------ useCategories
FetchTreeSucceeds ==
    /\ treeFetch = "pending"
    /\ treeFetch' = "done"
    /\ categoryTree' = serverTree
    /\ ResetEffect(categoryTree')
    /\ Ran("fetchCategoryTree")
    /\ UNCHANGED <<serverTree, updateReqs, saves, managerOpen, payments,
                   budget, chartVars, catVars,
                   confirmVars, contextVars>>

FetchTreeFails ==
    /\ treeFetch = "pending"
    /\ treeFetch' = "done"
    /\ categoryTree' = EmptyObj
    /\ ResetEffect(categoryTree')
    /\ Ran("fetchCategoryTreeFailed")
    /\ UNCHANGED <<serverTree, updateReqs, saves, managerOpen, payments,
                   budget, chartVars, catVars,
                   confirmVars, contextVars>>

RemoveAt(seq, i) == SubSeq(seq, 1, i - 1) \o SubSeq(seq, i + 1, Len(seq))

\* updateCategoryTree(newTree) resolves: setCategoryTree(newTree)
UpdateSucceeds ==
    \E i \in 1..Len(updateReqs) :
        /\ serverTree' = deepClone(updateReqs[i])
        /\ categoryTree' = updateReqs[i]
        /\ updateReqs' = RemoveAt(updateReqs, i)
        /\ ResetEffect(categoryTree')
        /\ last' = History("updateSucceeded", <<>>, <<>>, updateReqs[i])
        /\ UNCHANGED <<treeFetch, saves, managerOpen, payments, budget,
                       chartVars, catVars,
                       confirmVars, contextVars>>

\* updateCategoryTree(newTree) rejects: only a snackbar
UpdateFails ==
    \E i \in 1..Len(updateReqs) :
        /\ updateReqs' = RemoveAt(updateReqs, i)
        /\ last' = History("updateFailed", <<>>, <<>>, updateReqs[i])
        /\ UNCHANGED <<serverTree, treeFetch, saves, categoryTree, managerOpen,
                       payments, budget, chartVars, catVars, tree, editVars, addVars,
                       confirmVars,
                       contextVars>>

\* The backend handles a GET /categories: the answer is made from the tree it
\* holds at that moment.
CategoriesServed ==
    \E i \in 1..Len(catFetches) :
        /\ catFetches[i].state = "sent"
        /\ catFetches' = [catFetches EXCEPT ![i].state = "served",
                                            ![i].list = CategoriesOf(serverTree)]
        /\ UNCHANGED <<categories, dialogVars, chartVars>>

\* fetchCategories resolves: setCategories(list)
CategoriesReceived ==
    \E i \in 1..Len(catFetches) :
        /\ catFetches[i].state = "served"
        /\ categories' = catFetches[i].list
        /\ catFetches' = RemoveAt(catFetches, i)
        /\ Ran("fetchCategories")
        /\ UNCHANGED <<serverTree, treeFetch, updateReqs, saves, categoryTree,
                       managerOpen, payments, budget, chartVars, tree, editVars,
                       addVars, confirmVars, contextVars>>

\* fetchCategories rejects: setCategories([])
CategoriesFetchFails ==
    \E i \in 1..Len(catFetches) :
        /\ catFetches[i].state = "sent"
        /\ categories' = <<>>
        /\ catFetches' = RemoveAt(catFetches, i)
        /\ Ran("fetchCategoriesFailed")
        /\ UNCHANGED <<serverTree, treeFetch, updateReqs, saves, categoryTree,
                       managerOpen, payments, budget, chartVars, tree, editVars,
                       addVars, confirmVars, contextVars>>

\* setManagerOpen(true)
OpenManager ==
    /\ ~managerOpen
    /\ managerOpen' = TRUE
    /\ ResetEffect(categoryTree)
    /\ Ran("open")
    /\ UNCHANGED <<serverTree, treeFetch, updateReqs, saves, categoryTree,
                   payments, budget, chartVars, catVars, confirmVars, contextVars>>


\* ---------------------------------------------------- ManageCategoriesDialog
\* The main dialog takes input: it is open, and neither the confirmation
\* dialog nor the context menu (both modal, drawn above it) is.
DialogUsable == managerOpen /\ ~confirmOpen.open /\ ~contextMenu
\* No inline editor is open.  The user of the model finishes or cancels an
\* inline editor before opening the context menu or another editor, so an
\* editor's path always names a node that is drawn.
NoEditor == editPath.isNull /\ addPath.isNull

\* the inline editor of the node at editPath is drawn (renderTree, isEditing)
EditBoxShown == ~editPath.isNull /\ editPath.p \in RenderedPaths(tree)
\* the "New subcategory" row is drawn under the node at addPath (isAdding)
AddRowShown ==
    ~addPath.isNull /\ addPath.p # <<>> /\ addPath.p \in RenderedPaths(tree)
\* the "New root category" row is drawn (addPath && addPath.length === 0)
RootAddRowShown == ~addPath.isNull /\ addPath.p = <<>>

handleCategoryRightClick(path) ==
    /\ DialogUsable /\ NoEditor
    /\ path \in RenderedPaths(tree)
    /\ contextMenu' = TRUE
    /\ contextPath' = PathOf(path)
    /\ contextName' = path[Len(path)]
    /\ Ran("rightClick")
    /\ UNCHANGED <<hookVars, tree, editVars, addVars, confirmVars>>

CloseContextMenu ==
    /\ contextMenu' = FALSE /\ contextPath' = NullPath /\ contextName' = ""

handleCloseContextMenu ==
    /\ contextMenu
    /\ CloseContextMenu
    /\ Ran("closeContextMenu")
    /\ UNCHANGED <<hookVars, tree, editVars, addVars, confirmVars>>

handleContextEdit ==
    /\ contextMenu
    /\ editPath' = contextPath
    /\ editValue' = TextOf(contextName)
    /\ CloseContextMenu
    /\ Ran("contextEdit")
    /\ UNCHANGED <<hookVars, tree, addVars, confirmVars>>

handleContextAddChild ==
    /\ contextMenu
    /\ addPath' = contextPath
    /\ addValue' = <<>>
    /\ CloseContextMenu
    /\ Ran("contextAddChild")
    /\ UNCHANGED <<hookVars, tree, editVars, confirmVars>>

\* old.filter(cat => !new.includes(cat))
NotIncluded(old, new) == SelectSeq(old, LAMBDA cat : ~Includes(new, cat))
\* payments.filter(p => deleted.includes(p.cust_category)), as payment ids
Affected(pays, deleted) ==
    LET ids == [i \in 1..Len(pays) |-> i]
    IN  SelectSeq(ids, LAMBDA i : Includes(deleted, pays[i]))

\* NeedsConfirm without the look at the payments' categories.
NeedsConfirmAnyRemoved(deleted, pays) == Len(deleted) > 0 /\ Len(pays) > 0

\* Whether handleDelete asks for a confirmation instead of applying newTree.
NeedsConfirm(deleted, pays) ==
    /\ Len(deleted) > 0
    /\ Len(pays) > 0
    /\ Len(Affected(pays, deleted)) > 0

\* handleDelete that sets the tree before it asks.
handleDeleteEager(path) ==
    LET oldChildCats == getAllChildCategories(tree)
        r == deleteTreeKey(deepClone(tree), path)
        newChildCats == getAllChildCategories(r.tree)
        deleted == NotIncluded(oldChildCats, newChildCats)
    IN  /\ r.ok
        /\ tree' = r.tree
        /\ IF NeedsConfirm(deleted, payments)
           THEN /\ deletedCategories' = deleted
                /\ affectedPayments' = Affected(payments, deleted)
                /\ confirmOpen' = ConfirmOf(path, r.tree)
           ELSE UNCHANGED confirmVars

\* handleDelete(path): the tree is set at once, or held for a confirmation
handleDelete(path) ==
    LET oldChildCats == getAllChildCategories(tree)
        r == deleteTreeKey(deepClone(tree), path)
        newChildCats == getAllChildCategories(r.tree)
        deleted == NotIncluded(oldChildCats, newChildCats)
    IN  /\ r.ok
        /\ IF NeedsConfirm(deleted, payments)
           THEN /\ deletedCategories' = deleted
                /\ affectedPayments' = Affected(payments, deleted)
                /\ confirmOpen' = ConfirmOf(path, r.tree)
                /\ UNCHANGED tree
           ELSE /\ tree' = r.tree
                /\ UNCHANGED confirmVars

handleContextDelete ==
    /\ contextMenu
    /\ handleDelete(contextPath.p)
    /\ CloseContextMenu
    /\ RanOn("delete", contextPath.p, <<>>)
    /\ UNCHANGED <<hookVars, editVars, addVars>>

\* handleConfirm that applies the held tree and leaves the confirmation open.
handleConfirmKeepsOpen ==
    /\ confirmOpen.open
    /\ tree' = confirmOpen.newTree
    /\ RanOn("confirm", confirmOpen.path, <<>>)
    /\ UNCHANGED <<hookVars, editVars, addVars, contextVars, confirmVars>>

handleConfirm ==
    /\ confirmOpen.open
    /\ tree' = confirmOpen.newTree
    /\ confirmOpen' = ConfirmClosed
    /\ deletedCategories' = <<>>
    /\ affectedPayments' = <<>>
    /\ RanOn("confirm", confirmOpen.path, <<>>)
    /\ UNCHANGED <<hookVars, editVars, addVars, contextVars>>

handleCancelConfirm ==
    /\ confirmOpen.open
    /\ confirmOpen' = ConfirmClosed
    /\ deletedCategories' = <<>>
    /\ affectedPayments' = <<>>
    /\ Ran("cancelConfirm")
    /\ UNCHANGED <<hookVars, tree, editVars, addVars, contextVars>>

\* The text a field holds when its handler runs: what it held (typed = FALSE)
\* or what the user typed into it since (onChange: setEditValue, setAddValue).
FieldTexts(held) == TextValues \cup {held}

\* The body of handleEditSave, with editPath = path and the field holding v.
\* A TypeError thrown by renameTreeKey leaves the handler before any setState.
editSave(path, v) ==
    IF Trim(v) = ""
    THEN /\ editValue' = v
         /\ UNCHANGED <<tree, editPath>>
    ELSE LET r == renameTreeKey(deepClone(tree), path, Trim(v))
         IN  /\ r.ok
             /\ tree' = r.tree
             /\ editPath' = NullPath
             /\ editValue' = <<>>

handleEditSave(v) ==
    /\ DialogUsable /\ EditBoxShown
    /\ RanOn("rename", editPath.p, v)
    /\ editSave(editPath.p, v)
    /\ UNCHANGED <<hookVars, addVars, confirmVars, contextVars>>

EditCancel ==
    /\ DialogUsable /\ EditBoxShown
    /\ editPath' = NullPath
    /\ Ran("editCancel")
    /\ UNCHANGED <<hookVars, tree, editValue, addVars, confirmVars, contextVars>>

\* An add may grow the tree only within the bounds of the model.
RoomFor(path) == NodeCount(tree) < budget.nodes /\ Len(path) < MaxDepth

\* The body of handleAddSave, with addPath = path and the field holding v.
addSave(path, v) ==
    IF Trim(v) = ""
    THEN /\ addValue' = v
         /\ UNCHANGED <<tree, addPath>>
    ELSE LET r == AddChildTo(deepClone(tree), path, Trim(v))
         IN  /\ r.ok
             /\ tree' = r.tree
             /\ addPath' = NullPath
             /\ addValue' = <<>>

handleAddSave(v) ==
    /\ DialogUsable /\ AddRowShown
    /\ RoomFor(addPath.p)
    /\ RanOn("addChild", addPath.p, v)
    /\ addSave(addPath.p, v)
    /\ UNCHANGED <<hookVars, editVars, confirmVars, contextVars>>

AddCancel ==
    /\ DialogUsable /\ (AddRowShown \/ RootAddRowShown)
    /\ addPath' = NullPath
    /\ Ran("addCancel")
    /\ UNCHANGED <<hookVars, tree, editVars, addValue, confirmVars, contextVars>>

\* the "Add Root Category" button, drawn while addPath === null
ClickAddRoot ==
    /\ DialogUsable /\ NoEditor
    /\ addPath' = PathOf(<<>>)
    /\ Ran("clickAddRoot")
    /\ UNCHANGED <<hookVars, tree, editVars, addValue, confirmVars, contextVars>>

\* The two inline root-add handlers: newTree[addValue.trim()] = null
RootAdd(v) ==
    /\ tree' = SetProp(deepClone(tree), Trim(v), Null)
    /\ addPath' = NullPath
    /\ addValue' = <<>>

\* onKeyDown Enter of the root field
RootAddEnter(v) ==
    /\ DialogUsable /\ RootAddRowShown
    /\ RoomFor(<<>>)
    /\ RootAdd(v)
    /\ RanOn("rootAddEnter", <<>>, v)
    /\ UNCHANGED <<hookVars, editVars, confirmVars, contextVars>>

\* onClick of the root row's Add button
RootAddClick(v) ==
    /\ DialogUsable /\ RootAddRowShown
    /\ RoomFor(<<>>)
    /\ RanOn("rootAddClick", <<>>, v)
    /\ IF Trim(v) = ""
       THEN addValue' = v /\ UNCHANGED <<tree, addPath>>
       ELSE RootAdd(v)
    /\ UNCHANGED <<hookVars, editVars, confirmVars, contextVars>>

\* handleSave that sends the tree last fetched or saved, not the working tree.
handleSaveSendsFetched ==
    /\ DialogUsable
    /\ saves < budget.saves
    /\ saves' = saves + 1
    /\ updateReqs' = Append(updateReqs, categoryTree)
    /\ catFetches' = Append(catFetches, CatRequest("save", categoryTree))
    /\ managerOpen' = FALSE
    /\ ResetEffect(categoryTree)
    /\ Ran("save")
    /\ UNCHANGED <<serverTree, treeFetch, categoryTree, payments, budget,
                   chartVars, categories,
                   confirmVars, contextVars>>

\* handleSave: onUpdate(tree) sends the tree; onClose() changes `open`, which
\* runs the reset effect against the categoryTree prop as it is then.
handleSave ==
    /\ DialogUsable
    /\ saves < budget.saves
    /\ saves' = saves + 1
    /\ updateReqs' = Append(updateReqs, tree)
    /\ catFetches' = Append(catFetches, CatRequest("save", tree))
    /\ managerOpen' = FALSE
    /\ ResetEffect(categoryTree)
    /\ Ran("save")
    /\ UNCHANGED <<serverTree, treeFetch, categoryTree, payments, budget,
                   chartVars, categories,
                   confirmVars, contextVars>>

\* handleMainCancel that closes the dialog and leaves the working tree alone.
handleMainCancelKeepsTree ==
    /\ DialogUsable
    /\ managerOpen' = FALSE
    /\ editPath' = NullPath /\ editValue' = <<>>
    /\ addPath' = NullPath /\ addValue' = <<>>
    /\ Ran("mainCancel")
    /\ UNCHANGED <<serverTree, treeFetch, updateReqs, saves, categoryTree,
                   payments, budget, chartVars, catVars, tree, confirmVars, contextVars>>

handleMainCancel ==
    /\ DialogUsable
    /\ managerOpen' = FALSE
    /\ ResetEffect(categoryTree)
    /\ Ran("mainCancel")
    /\ UNCHANGED <<serverTree, treeFetch, updateReqs, saves, categoryTree,
                   payments, budget, chartVars, catVars, confirmVars, contextVars>>

Next ==
    \/ FetchTreeSucceeds
    \/ FetchTreeFails
    \/ UpdateSucceeds
    \/ UpdateFails
    \/ OpenManager
    \/ \E path \in RenderedPaths(tree) : handleCategoryRightClick(path)
    \/ handleCloseContextMenu
    \/ handleContextEdit
    \/ handleContextAddChild
    \/ handleContextDelete
    \/ handleConfirm
    \/ handleCancelConfirm
    \/ \E v \in FieldTexts(editValue) : handleEditSave(v)
    \/ EditCancel
    \/ \E v \in FieldTexts(addValue) : handleAddSave(v)
    \/ AddCancel
    \/ ClickAddRoot
    \/ \E v \in FieldTexts(addValue) : RootAddEnter(v)
    \/ \E v \in FieldTexts(addValue) : RootAddClick(v)
    \/ handleSave
    \/ handleMainCancel

Spec == Init /\ [][Next]_vars

\* ------------------------------------------------- with the category list
\* The dialog together with the fetchCategories requests of the mount effect
\* and of handleUpdateCategoryTree, and their answers.
NextSave ==
    \/ Next
    \/ CategoriesServed
    \/ CategoriesReceived
    \/ CategoriesFetchFails

SpecSave == Init /\ [][NextSave]_vars

\* --------------------------------------------- the operations on any path
\* The three tree operations of the dialog handed an arbitrary path, one that
\* names a node or not: handleDelete(path), handleEditSave with editPath =
\* path, handleAddSave with addPath = path.
ArbPaths == UNION { [1..n -> Names] : n \in 1..MaxPathLen }

\* The texts a rename is handed: the field texts, and a name no node has.
RenameTexts == TextValues \cup {<<Blank, "c", Blank>>}

InitOps ==
    /\ budget = [nodes |-> MaxNodes, saves |-> 0]
    /\ serverTree = LoadedTree
    /\ treeFetch = "done"
    /\ updateReqs = <<>>
    /\ saves = 0
    /\ categoryTree = LoadedTree
    /\ managerOpen = TRUE
    /\ payments = <<>>
    /\ tree = deepClone(LoadedTree)
    /\ editPath = NullPath /\ editValue = <<>>
    /\ addPath = NullPath /\ addValue = <<>>
    /\ confirmOpen = ConfirmClosed
    /\ deletedCategories = <<>> /\ affectedPayments = <<>>
    /\ contextMenu = FALSE /\ contextPath = NullPath /\ contextName = ""
    /\ last = [op |-> "init", pre |-> EmptyObj, path |-> <<>>, text |-> <<>>,
               sent |-> Null, reqs |-> <<>>]
    /\ aggregationData = NoData
    /\ echartsData = echartsDataOf(NoData)
    /\ projected = NotProjected
    /\ categories = CategoriesOf(LoadedTree)
    /\ catFetches = <<>>

OpDelete(path) ==
    /\ handleDelete(path)
    /\ RanOn("delete", path, <<>>)
    /\ UNCHANGED <<hookVars, editVars, addVars, contextVars>>

OpRename(path, v) ==
    /\ editSave(path, v)
    /\ RanOn("rename", path, v)
    /\ UNCHANGED <<hookVars, addVars, confirmVars, contextVars>>

OpAddChild(path, v) ==
    /\ RoomFor(path)
    /\ addSave(path, v)
    /\ RanOn("addChild", path, v)
    /\ UNCHANGED <<hookVars, editVars, confirmVars, contextVars>>

NextOps ==
    \/ \E path \in ArbPaths : OpDelete(path)
    \/ \E path \in ArbPaths, v \in RenameTexts : OpRename(path, v)
    \/ \E path \in ArbPaths \cup {<<>>}, v \in TextValues : OpAddChild(path, v)

SpecOps == InitOps /\ [][NextOps]_vars

\* ------------------------------------------------ the aggregation chart
\* The aggregation documents handed to the dialog: every list of up to three
\* nodes with different names with every list of up to MaxLinks links between
\* them (links back to the root and loops included), the document of the
\* projector example, and wide documents: a root with up to MaxFan top-level
\* categories, the last of which has one subcategory.
ChartNames == {RootName, "Food", "Refund"}
ChartValues == {-1, 0, 1}
NodeLists ==
    UNION { { ns \in [1..n -> [name : ChartNames, value : ChartValues]] :
                \A i, j \in 1..n : i # j => ns[i].name # ns[j].name }
            : n \in 1..Cardinality(ChartNames) }
LinkLists(n, m) == [1..m -> [source : 0..(n - 1), target : 0..(n - 1)]]
ExampleGraph ==
    FlowGraph(<< ChartNode(RootName, -100), ChartNode("Food", 60),
                 ChartNode("Refund", -10) >>,
              << Link(0, 1), Link(0, 2) >>)
FanGraph(w) ==
    FlowGraph(<<ChartNode(RootName, -1)>>
                  \o [i \in 1..w |-> ChartNode("Food", 1)]
                  \o <<ChartNode("Snacks", 1)>>,
              [i \in 1..w |-> Link(0, i)] \o <<Link(w, w + 1)>>)

\* setAggregationData(data); the dialog renders and the memo on [data] is
\* computed.
setAggregationData(data) ==
    /\ aggregationData' = dataAfter(data)
    /\ echartsData' = echartsDataOf(data)
    /\ projected' = [runs |-> 1, data |-> data, chart |-> echartsDataOf(data)]
    /\ UNCHANGED <<dialogVars, catVars>>

\* handleSummaryCardClick, when fetchAggregation answers for the first time
\* in a session: with a small document, ...
AggregationLoaded ==
    /\ aggregationData = NoData
    /\ \E ns \in NodeLists, m \in 0..MaxLinks :
          \E ls \in LinkLists(Len(ns), m) :
             setAggregationData(FlowGraph(ns, ls))

\* ... with the document of the example, ...
ExampleLoaded ==
    /\ aggregationData = NoData
    /\ setAggregationData(ExampleGraph)

\* ... or with a wide document.
WideAggregationLoaded ==
    /\ aggregationData = NoData
    /\ \E w \in 1..MaxFan : setAggregationData(FanGraph(w))

\* The memo is computed once more from the document the dialog holds (React
\* keeps a memo as an optimisation only and may run the function again).
MemoRecomputed ==
    /\ projected.runs = 1
    /\ aggregationData' = dataAfter(aggregationData)
    /\ echartsData' = echartsDataOf(aggregationData)
    /\ projected' = [projected EXCEPT !.runs = 2]
    /\ UNCHANGED <<dialogVars, catVars>>

InitChart == Init /\ budget = [nodes |-> MaxNodes, saves |-> 0]

NextChart ==
    \/ AggregationLoaded
    \/ ExampleLoaded
    \/ WideAggregationLoaded
    \/ MemoRecomputed

SpecChart == InitChart /\ [][NextChart]_vars

\* ================================================================ claims
AddOps == {"addChild", "rootAddEnter", "rootAddClick"}
ServerResponses ==
    {"fetchCategoryTree", "fetchCategoryTreeFailed", "updateSucceeded",
     "updateFailed"}
\* The last handler was a delete that set the tree at once.
DeleteApplied == last.op = "delete" /\ ~confirmOpen.open
\* path = <<A, B, C>> where B is the only child of A and C the only child of B.
OnlyChildChain(t, path) ==
    /\ Len(path) = 3
    /\ LET A == NodeAt(t, <<path[1]>>)
       IN  /\ IsObj(A) /\ Len(A.kids) = 1 /\ A.kids[1].k = path[2]
           /\ LET B == A.kids[1].v
              IN  IsObj(B) /\ Len(B.kids) = 1 /\ B.kids[1].k = path[3]
\* Leaf names the delete of `path` removes from tree t.
RemovedBy(t, path) ==
    LET r == deleteTreeKey(deepClone(t), path)
    IN  IF r.ok THEN LeafNames(t) \ LeafNames(r.tree) ELSE {}
Referenced(names) == \E i \in 1..Len(payments) : payments[i] \in names
Front(path) == SubSeq(path, 1, Len(path) - 1)
\* A property somewhere in the tree has the value undefined.
RECURSIVE HasUndefined(_)
HasUndefined(v) ==
    /\ IsObj(v)
    /\ \E i \in 1..Len(v.kids) :
          v.kids[i].v = Undef \/ HasUndefined(v.kids[i].v)
\* A tree as the data model wants it: every node a Leaf or a Branch, no empty
\* Branch, no empty name.
WellFormed(t) == ~HasEmptyBranch(t) /\ ~HasEmptyName(t) /\ ~HasUndefined(t)

\* C1: in every reachable working tree no Branch is empty: the value {} never
\* sits below the root.
C1_NoEmptyBranch == ~HasEmptyBranch(tree)

\* C2 (as claimed): after delete([A, B, C]) on a chain of only children, the
\* grandparent A is a Leaf as well.
C2_BothAncestorsCollapse ==
    (DeleteApplied /\ OnlyChildChain(last.pre, last.path))
        => NodeAt(tree, <<last.path[1]>>) = Null

\* C2 (amended): after delete([A, B, C]) on a chain of only children, the
\* parent B is a Leaf and the grandparent A is a Branch whose only child is B.
C2_OnlyParentCollapses ==
    (DeleteApplied /\ OnlyChildChain(last.pre, last.path))
        => NodeAt(tree, <<last.path[1]>>) = Obj(<<Entry(last.path[2], Null)>>)

C2_Witness ==
    /\ DeleteApplied
    /\ OnlyChildChain(last.pre, last.path)
    /\ NodeAt(tree, <<last.path[1], last.path[2]>>) = Null

\* C3: after a pending delete is confirmed, no payment's category is a Leaf
\* name that the confirmed delete removed.
C3_ConfirmClearsReferences ==
    last.op = "confirm"
        => \A i \in 1..Len(payments) :
              payments[i] \notin (LeafNames(last.pre) \ LeafNames(tree))

C5_UnreferencedDeleteIsImmediate ==
    [][ (last'.op = "delete" /\ ~Referenced(RemovedBy(tree, last'.path)))
            => /\ tree' = deleteTreeKey(deepClone(tree), last'.path).tree
               /\ ~confirmOpen'.open
               /\ UNCHANGED confirmVars ]_vars

C5_Witness ==
    /\ DeleteApplied
    /\ Len(payments) > 0
    /\ LeafNames(last.pre) \ LeafNames(tree) # {}
    /\ tree = deleteTreeKey(deepClone(last.pre), last.path).tree

\* C6: an add whose trimmed name is already a child of the node at the parent
\* path leaves the working tree as it was.
C6_DuplicateAddRejected ==
    (/\ last.op \in AddOps
     /\ WellFormed(last.pre)
     /\ Trim(last.text) # ""
     /\ IsObj(NodeAt(last.pre, last.path))
     /\ HasKey(NodeAt(last.pre, last.path), Trim(last.text)))
        => tree = last.pre

\* C7: a rename whose trimmed new name is the name of another sibling leaves
\* the working tree as it was.
C7_DuplicateRenameRejected ==
    (/\ last.op = "rename"
     /\ WellFormed(last.pre)
     /\ Len(last.path) > 0
     /\ Trim(last.text) # ""
     /\ Trim(last.text) # last.path[Len(last.path)]
     /\ IsObj(NodeAt(last.pre, Front(last.path)))
     /\ HasKey(NodeAt(last.pre, Front(last.path)), Trim(last.text)))
        => tree = last.pre

\* C8: an add with a name that is blank after trimming adds nothing, through
\* each of the three add handlers, and no node of the working tree has the
\* empty name.
C8_BlankAddRejected ==
    /\ (last.op \in AddOps /\ Trim(last.text) = "") => tree = last.pre
    /\ ~HasEmptyName(tree)

C10_FailedSaveKeepsEdits ==
    [][ (last.op = "save" /\ last'.op = "updateFailed")
            => tree' = last'.sent ]_vars

\* C11: the main Cancel makes the working tree equal to categoryTree, the last
\* fetched or saved snapshot, whatever adds, renames, deletes and confirms came
\* before; and no handler of the dialog changes categoryTree.
C11_CancelRevertsToSnapshot ==
    [][ /\ last'.op = "mainCancel"
            => (tree' = categoryTree /\ categoryTree' = categoryTree)
        /\ last'.op \notin ServerResponses
            => categoryTree' = categoryTree ]_vars

\* A cancel that threw away edits: the tree it found was not the snapshot.
C11_Witness ==
    /\ last.op = "mainCancel"
    /\ last.pre # categoryTree
    /\ categoryTree # EmptyObj
    /\ tree = categoryTree

IsPrefix(p, q) == Len(p) <= Len(q) /\ SubSeq(q, 1, Len(p)) = p
KeySet(o) == {o.kids[i].k : i \in 1..Len(o.kids)}
\* The last handler was a rename that the data model accepts: the path names
\* a node of a well-formed tree and the trimmed new name is not blank and is
\* the name of no child of the node's parent (its own name included).
RenameAccepted ==
    /\ last.op = "rename"
    /\ WellFormed(last.pre)
    /\ Len(last.path) > 0
    /\ NodeAt(last.pre, last.path) # Undef
    /\ Trim(last.text) # ""
    /\ ~HasKey(NodeAt(last.pre, Front(last.path)), Trim(last.text))

\* C13: after an accepted rename the node under the new name has the subtree
\* the old name had, the old name is no child of the parent any more, the
\* parent has the other children it had, and every node that is neither in
\* the renamed subtree nor an ancestor of it is as it was.
C13_RenameKeepsSubtree ==
    RenameAccepted =>
        LET old == last.path[Len(last.path)]
            new == Trim(last.text)
            parentPath == Front(last.path)
        IN  /\ NodeAt(tree, parentPath \o <<new>>) = NodeAt(last.pre, last.path)
            /\ KeySet(NodeAt(tree, parentPath))
                  = (KeySet(NodeAt(last.pre, parentPath)) \ {old}) \cup {new}
            /\ \A p \in RenderedPaths(last.pre) \cup {<<>>} :
                  IF IsPrefix(last.path, p) \/ p = parentPath THEN TRUE
                  ELSE IF IsPrefix(p, parentPath)
                       THEN ObjKeys(NodeAt(tree, p)) = ObjKeys(NodeAt(last.pre, p))
                       ELSE NodeAt(tree, p) = NodeAt(last.pre, p)

\* An accepted rename of a Branch.
C13_Witness ==
    /\ RenameAccepted
    /\ IsObj(NodeAt(last.pre, last.path))
    /\ NodeAt(tree, Front(last.path) \o <<Trim(last.text)>>)
          = NodeAt(last.pre, last.path)

\* C14: after an accepted rename the parent lists its children in the order
\* it had, with the new name in the place of the old one.
C14_RenameKeepsPosition ==
    RenameAccepted =>
        LET old == last.path[Len(last.path)]
            before == ObjKeys(NodeAt(last.pre, Front(last.path)))
        IN  ObjKeys(NodeAt(tree, Front(last.path)))
              = [i \in 1..Len(before) |->
                    IF before[i] = old THEN Trim(last.text) ELSE before[i]]

\* C15: an add below a path that names a Leaf turns that Leaf into a Branch
\* whose only child is the new Leaf; every other node is as it was, and the
\* ancestors of the path keep their children in their order.
C15_AddPromotesLeaf ==
    (/\ last.op = "addChild"
     /\ Trim(last.text) # ""
     /\ Len(last.path) > 0
     /\ NodeAt(last.pre, last.path) = Null)
        => /\ NodeAt(tree, last.path) = Obj(<<Entry(Trim(last.text), Null)>>)
           /\ \A p \in RenderedPaths(last.pre) \cup {<<>>} :
                 IF p = last.path THEN TRUE
                 ELSE IF IsPrefix(p, last.path)
                      THEN ObjKeys(NodeAt(tree, p)) = ObjKeys(NodeAt(last.pre, p))
                      ELSE NodeAt(tree, p) = NodeAt(last.pre, p)

\* An add below a Leaf that has a sibling.
C15_Witness ==
    /\ last.op = "addChild"
    /\ Trim(last.text) # ""
    /\ Len(last.path) > 0
    /\ NodeAt(last.pre, last.path) = Null
    /\ Len(NodeAt(last.pre, Front(last.path)).kids) > 1
    /\ IsObj(NodeAt(tree, last.path))

\* The last handler was a delete, applied at once, of a child of a named
\* Branch.
ChildDeleteApplied ==
    /\ DeleteApplied
    /\ Len(last.path) >= 2
    /\ IsObj(NodeAt(last.pre, Front(last.path)))
    /\ HasKey(NodeAt(last.pre, Front(last.path)), last.path[Len(last.path)])

\* C16: the delete of a child of a Branch that has other children leaves the
\* Branch with the other children, as they were and in their order; the
\* delete of the only child of a Branch leaves the Branch as a Leaf under its
\* own name, in its place among its siblings.
C16_SingleLevelCollapse ==
    ChildDeleteApplied =>
        LET parentPath == Front(last.path)
            parent == NodeAt(last.pre, parentPath)
            key == last.path[Len(last.path)]
        IN  IF Len(parent.kids) > 1
            THEN NodeAt(tree, parentPath)
                   = Obj(SelectSeq(parent.kids, LAMBDA e : e.k # key))
            ELSE /\ NodeAt(tree, parentPath) = Null
                 /\ ObjKeys(NodeAt(tree, Front(parentPath)))
                       = ObjKeys(NodeAt(last.pre, Front(parentPath)))

\* The second delete of the example: the only child of a Branch is deleted.
C16_Witness ==
    /\ ChildDeleteApplied
    /\ Len(last.path) = 2
    /\ Len(NodeAt(last.pre, Front(last.path)).kids) = 1
    /\ NodeAt(tree, Front(last.path)) = Null

\* leavesOf: the names of the Leaves of a tree, at any depth.
LeavesOf(t) ==
    { p[Len(p)] : p \in {q \in RenderedPaths(t) : NodeAt(t, q) = Null} }

\* C17: the names handleDelete computes as removed are the names that are a
\* Leaf somewhere in the tree before the delete and a Leaf nowhere in the tree
\* after it: a pending delete holds exactly these names, and a delete applied
\* at once removed none of them that a payment references.
C17_DiffLeaves ==
    /\ (last.op = "delete" /\ confirmOpen.open)
          => { deletedCategories[i] : i \in 1..Len(deletedCategories) }
               = LeavesOf(last.pre) \ LeavesOf(confirmOpen.newTree)
    /\ DeleteApplied => ~Referenced(LeavesOf(last.pre) \ LeavesOf(tree))

\* A pending delete of a Branch that removes two Leaf names below it.
C17_Witness ==
    /\ last.op = "delete" /\ confirmOpen.open
    /\ Len(last.path) = 1
    /\ Cardinality(LeavesOf(last.pre) \ LeavesOf(confirmOpen.newTree)) = 2
    /\ Len(deletedCategories) = 2

\* ---------------------------------------------------- the projected tree
\* The memo holds a tree: the one-element list [root].
RootShown == echartsData.status = "list"
\* Position of the root in the document, and the document's node positions.
RootIdx == findRootIdx(aggregationData)
Positions == 0..(Len(aggregationData.nodes) - 1)
\* An excluded node: not the root, and of negative value.
Excluded(i) == i # RootIdx /\ NodeOf(aggregationData, i).value < 0
\* The excluded nodes that are the target of a link.
LinkedExcluded ==
    { i \in Positions :
        /\ Excluded(i)
        /\ \E k \in 1..Len(aggregationData.links) :
              aggregationData.links[k].target = i }
RECURSIVE SumValues(_)
SumValues(S) ==
    IF S = {} THEN 0
    ELSE LET i == CHOOSE j \in S : TRUE
         IN  NodeOf(aggregationData, i).value + SumValues(S \ {i})
\* The nodes of the result below node t.
RECURSIVE Descendants(_)
Descendants(t) ==
    UNION { {t.children[k]} \cup Descendants(t.children[k])
            : k \in 1..Len(t.children) }
\* The targets, in link order, of the links from node i to nodes not excluded.
ExpectedChildren(i) ==
    LET ls == SelectSeq(aggregationData.links,
                        LAMBDA l : l.source = i /\ ~Excluded(l.target))
    IN  [k \in 1..Len(ls) |-> ls[k].target]
\* Node t of the result is node i of the document, with the expected children.
RECURSIVE Conforms(_, _)
Conforms(t, i) ==
    /\ t.name = NodeOf(aggregationData, i).name
    /\ Len(t.children) = Len(ExpectedChildren(i))
    /\ \A k \in 1..Len(t.children) :
          Conforms(t.children[k], ExpectedChildren(i)[k])

\* C18: the value of the root of the result is -(root.value) - negativeSum,
\* negativeSum being the sum of the values of the excluded nodes that are the
\* target of a link; every node below the root has the value of a node of the
\* document with its name; and the document of the example gives
\* [{Total, 110, children: [{Food, 60}]}].
C18_RootValue ==
    /\ RootShown =>
          /\ echartsData.root.value
               = (-NodeOf(aggregationData, RootIdx).value)
                     - SumValues(LinkedExcluded)
          /\ \A n \in Descendants(echartsData.root) :
                \E i \in Positions \ {RootIdx} :
                   /\ NodeOf(aggregationData, i).name = n.name
                   /\ NodeOf(aggregationData, i).value = n.value
    /\ aggregationData = ExampleGraph =>
          echartsData
            = ChartOf(TreeNode(RootName, 110, ROOT_COLOR,
                               <<TreeNode("Food", 60, CATEGORY_COLORS[1], <<>>)>>))

\* A result for a document with an excluded node that a link leads to and
\* one that no link leads to.
C18_Witness ==
    /\ RootShown
    /\ Cardinality(LinkedExcluded) = 1
    /\ \E i \in Positions : Excluded(i) /\ i \notin LinkedExcluded
    /\ echartsData.root.value = 2

\* C19: the result starts at the root, whatever the sign of the root's value,
\* whenever the document has nodes, links and a root; each node of the result
\* has as children, in link order, the targets of the links that leave it and
\* lead to a node that is not excluded; and no node of the result is an
\* excluded node.
C19_ChildrenFollowLinks ==
    /\ (/\ ~aggregationData.isNull
        /\ Len(aggregationData.nodes) > 0 /\ Len(aggregationData.links) > 0
        /\ RootIdx # -1
        /\ echartsData.status # "RangeError") => RootShown
    /\ RootShown =>
          /\ Conforms(echartsData.root, RootIdx)
          /\ \A n \in Descendants(echartsData.root) \cup {echartsData.root} :
                \A i \in Positions :
                   Excluded(i) => NodeOf(aggregationData, i).name # n.name

\* A result whose root has a value that is not negative, a link to an
\* excluded node and, after it, a link to the one child it has.
C19_Witness ==
    /\ RootShown
    /\ NodeOf(aggregationData, RootIdx).value >= 0
    /\ Len(echartsData.root.children) = 1
    /\ aggregationData.links[1].source = RootIdx
    /\ Excluded(aggregationData.links[1].target)
    /\ Len(aggregationData.links) = 2

\* C20: the root has ROOT_COLOR; the i-th child of the root (from 0) has
\* CATEGORY_COLORS[i mod 11]; every node below a child of the root has that
\* child's color.
C20_Colors ==
    RootShown =>
        /\ echartsData.root.itemStyle = ROOT_COLOR
        /\ \A k \in 1..Len(echartsData.root.children) :
              LET top == echartsData.root.children[k]
                  color == CATEGORY_COLORS[((k - 1) % Len(CATEGORY_COLORS)) + 1]
              IN  /\ top.itemStyle = color
                  /\ \A n \in Descendants(top) : n.itemStyle = color

\* A result with more top-level nodes than colors, the last with a child.
C20_Witness ==
    /\ RootShown
    /\ Len(echartsData.root.children) > Len(CATEGORY_COLORS)
    /\ LET top == echartsData.root.children[Len(echartsData.root.children)]
       IN  /\ Len(top.children) > 0
           /\ top.children[1].itemStyle = CATEGORY_COLORS[1]

\* A document with nodes and links, none of the nodes having the root's name.
RootAbsent ==
    /\ ~aggregationData.isNull
    /\ Len(aggregationData.nodes) > 0 /\ Len(aggregationData.links) > 0
    /\ RootIdx = -1

\* C21: for a document with nodes and links but no node of the root's name
\* the projector fails with an outcome of its own: it is not a tree, and it is
\* not the outcome the projector has for no data (a null document, or one
\* with no nodes or no links).
C21_RootNotFoundDistinct ==
    RootAbsent =>
        /\ ~RootShown
        /\ echartsData # echartsDataOf(NoData)
        /\ echartsData # echartsDataOf(FlowGraph(<<>>, <<>>))
        /\ echartsData # echartsDataOf(FlowGraph(aggregationData.nodes, <<>>))

\* Node t of the result, made from node i of the document, has a `children`
\* property exactly if a link leads from i to a node that is kept, and so
\* has every node below it.
RECURSIVE ChildrenFieldRight(_, _)
ChildrenFieldRight(t, i) ==
    /\ t.hasChildren <=> Len(ExpectedChildren(i)) > 0
    /\ t.hasChildren => Len(t.children) > 0
    /\ \A k \in 1..Len(t.children) :
          /\ k <= Len(ExpectedChildren(i))
          /\ ChildrenFieldRight(t.children[k], ExpectedChildren(i)[k])

\* C22: a result is a list of exactly one element, the root; a node of the
\* result has a `children` field if and only if it has at least one kept
\* child, so no node has an empty children list.
C22_ChildrenFieldOnlyIfKept ==
    RootShown =>
        /\ echartsData.length = 1
        /\ echartsData.root.name = RootName
        /\ ChildrenFieldRight(echartsData.root, RootIdx)

\* A result whose root has one child, that child being the source of a link
\* to an excluded node and of no other link: it has no `children` field.
C22_Witness ==
    /\ RootShown
    /\ Len(echartsData.root.children) = 1
    /\ ~echartsData.root.children[1].hasChildren
    /\ \E k \in 1..Len(aggregationData.links) :
          /\ aggregationData.links[k].source # RootIdx
          /\ NodeOf(aggregationData, aggregationData.links[k].source).name
               = echartsData.root.children[1].name
          /\ Excluded(aggregationData.links[k].target)

LoadOps ==
    {"fetchCategoryTree", "fetchCategoryTreeFailed", "updateSucceeded", "open",
     "save", "mainCancel"}

\* C24: loading a valid tree gives a working tree equal to it (the clone of a
\* valid tree is that tree), and a save made from the working tree as loaded
\* sends a tree equal to the one loaded.
C24_RoundTrip ==
    /\ (last.op \in LoadOps /\ WellFormed(categoryTree)) => tree = categoryTree
    /\ WellFormed(tree) => deepClone(tree) = tree
    /\ (/\ last.op = "save"
        /\ WellFormed(categoryTree)
        /\ last.pre = deepClone(categoryTree))
          => /\ Len(updateReqs) > 0
             /\ updateReqs[Len(updateReqs)] = categoryTree

\* The tree fetched, a Branch with a Leaf, was loaded and then saved as it
\* was.
C24_Witness ==
    /\ last.op = "save"
    /\ categoryTree = LoadedTree
    /\ last.pre = LoadedTree
    /\ updateReqs = <<LoadedTree>>

\* C25: an updateCategoryTree request is issued by handleSave only, one for
\* each save, carrying the working tree as it was when Save was clicked; no
\* other handler issues one (the answers of the backend take one away).
C25_PutOnlyOnSave ==
    /\ Len(updateReqs) <= saves
    /\ last.op = "save" => updateReqs = Append(last.reqs, last.pre)
    /\ last.op \in {"updateSucceeded", "updateFailed"}
          => Len(updateReqs) = Len(last.reqs) - 1
    /\ last.op \notin {"save", "updateSucceeded", "updateFailed"}
          => updateReqs = last.reqs

\* A save of a working tree that was edited since it was loaded: the request
\* carries the edited tree.
C25_Witness ==
    /\ last.op = "save"
    /\ last.pre # categoryTree
    /\ updateReqs = <<last.pre>>
    /\ saves = 1

\* C26: a rename of a node to the name it has leaves the working tree as it
\* was: the node and its subtree are still there.
C26_RenameToOwnName ==
    (/\ last.op = "rename"
     /\ WellFormed(last.pre)
     /\ Len(last.path) > 0
     /\ NodeAt(last.pre, last.path) # Undef
     /\ Trim(last.text) = last.path[Len(last.path)])
        => tree = last.pre

\* The last handler was an add that the data model accepts: the tree is well
\* formed and the trimmed name is not blank and names no child of the parent.
AddAccepted ==
    /\ last.op \in AddOps
    /\ WellFormed(last.pre)
    /\ Trim(last.text) # ""
    /\ NodeAt(last.pre, last.path) # Undef
    /\ ~HasKey(NodeAt(last.pre, last.path), Trim(last.text))

\* C27: an add, a rename or a delete does not by itself take a Leaf name that
\* a payment references out of the Leaves of the working tree: after the
\* handler every such name is still a Leaf (a delete that would remove one is
\* held back for confirmation).
C27_ReferencedLeafStays ==
    (\/ AddAccepted
     \/ RenameAccepted
     \/ last.op = "delete" /\ WellFormed(last.pre))
        => \A i \in 1..Len(payments) :
              payments[i] \in LeavesOf(last.pre) => payments[i] \in LeavesOf(tree)

\* C28: a confirmed delete (of a path of names that are not empty) sets the
\* working tree to the working tree as it was just before the confirmation,
\* with the pending path deleted.
C28_CommitFromCurrentTree ==
    (/\ last.op = "confirm"
     /\ \A i \in 1..Len(last.path) : last.path[i] # "") =>
        LET r == deleteTreeKey(deepClone(last.pre), last.path)
        IN  r.ok /\ tree = r.tree

\* C29: the projector ends with a result for every document, also one whose
\* links lead in a circle through kept nodes, from a node to itself or back
\* to the root: the call never ends by exhausting the stack.
C29_Terminates == echartsData.status # "RangeError"

\* C30: the fetchCategories request of a save whose update has succeeded is
\* answered with the list of the tree that save sent; and once every request
\* of a session with a save is answered, the list last received being the
\* one the UI holds, that list is the list of the tree the backend holds.
C30_CategoriesAfterUpdate ==
    /\ \A i \in 1..Len(catFetches) :
          (/\ catFetches[i].by = "save"
           /\ catFetches[i].state = "served"
           /\ updateReqs = <<>>
           /\ serverTree = deepClone(catFetches[i].tree))
              => catFetches[i].list = CategoriesOf(serverTree)
    /\ (/\ last.op = "fetchCategories"
        /\ saves > 0
        /\ updateReqs = <<>> /\ catFetches = <<>>)
          => categories = CategoriesOf(serverTree)

====
